---- MODULE Spec2Model ----
(***************************************************************************)
(* A model of the go-ini document (type INI), its reader (INI.ReadFrom),   *)
(* its printer (INI.WriteTo) and its accessors (Get, Has, Set, Del,        *)
(* SetComments).                                                           *)
(*                                                                         *)
(* A Go string or []byte is a sequence of one-character strings; the       *)
(* line feed, carriage return, space, quotes and backslash are written     *)
(* LF, CR, SP, SQ, DQ, BSL.  A nil *iniItem (a blank line inside a         *)
(* section) is the record NilItem.                                         *)
(***************************************************************************)
EXTENDS Integers, Sequences, FiniteSets, TLC

VARIABLES
    comment,          \* INI.comment: the comment prefix
    isCaseSensitive,  \* INI.isCaseSensitive
    mergeSections,    \* INI.mergeSections: 0, or one of the three merge policies
    global,           \* INI.global: the section without a name
    sections,         \* INI.sections: the named sections, in order
    pc,               \* "idle", or "reading" while ReadFrom is in its loop
    rd,               \* ReadFrom's local variables
    ret,              \* the last finished call and what it returned
    src,              \* the lines the current (or last) ReadFrom has consumed
    doc0,             \* the document as it was when that ReadFrom was called
    alphabet,         \* the lines an input may be made of
    limits,           \* how many lines, ReadFrom calls and accessor calls a run has
    count             \* the lines read, ReadFrom calls and accessor calls made so far

vars == <<comment, isCaseSensitive, mergeSections, global, sections,
          pc, rd, ret, src, doc0, alphabet, limits, count>>

config == <<comment, isCaseSensitive, mergeSections, alphabet, limits>>

---------------------------------------------------------------------------
(* Bytes and strings.                                                      *)

LF == "LF"
CR == "CR"
SP == "SP"
SQ == "SQ"
DQ == "DQ"
BSL == "BSL"

\* strings.ToLower, on the letters the inputs use.
LowerChar(c) ==
    CASE c = "A" -> "a"
      [] c = "B" -> "b"
      [] c = "J" -> "j"
      [] c = "K" -> "k"
      [] OTHER -> c

ToLower(s) == [i \in 1..Len(s) |-> LowerChar(s[i])]

\* ident that never lowercases.
identAsIs(flag, s) == s

ident(flag, s) == IF flag THEN s ELSE ToLower(s)

\* unicode.IsSpace, on the bytes the inputs use.
IsSpace(c) == c \in {SP, CR, LF}

RECURSIVE TrimLeft(_)
TrimLeft(s) ==
    IF Len(s) > 0 /\ IsSpace(s[1]) THEN TrimLeft(Tail(s)) ELSE s

RECURSIVE TrimRight(_)
TrimRight(s) ==
    IF Len(s) > 0 /\ IsSpace(s[Len(s)])
    THEN TrimRight(SubSeq(s, 1, Len(s) - 1))
    ELSE s

\* IndexByte with 0, not -1, for a byte that is not there.
IndexByteOrZero(s, c) ==
    IF \E i \in 1..Len(s) : s[i] = c
    THEN (CHOOSE i \in 1..Len(s) : s[i] = c /\ \A j \in 1..(i - 1) : s[j] # c) - 1
    ELSE 0

\* bytes.IndexByte: the 0-based index of the first c in s, or -1.
IndexByte(s, c) ==
    IF \E i \in 1..Len(s) : s[i] = c
    THEN (CHOOSE i \in 1..Len(s) : s[i] = c /\ \A j \in 1..(i - 1) : s[j] # c) - 1
    ELSE -1

HasPrefix(s, p) == Len(s) >= Len(p) /\ SubSeq(s, 1, Len(p)) = p

\* s[from:] and s[:to] with Go's 0-based indices.
SliceFrom(s, from) == SubSeq(s, from + 1, Len(s))
SliceTo(s, to) == SubSeq(s, 1, to)

RemoveAt(s, i) == SubSeq(s, 1, i - 1) \o SubSeq(s, i + 1, Len(s))

\* copy(buf[dst:], buf[from:]) for dst <= from, 0-based: the bytes from `from`
\* on are moved down to dst, the tail keeps what it held.
CopyDown(buf, dst, from) ==
    [i \in 1..Len(buf) |->
        IF i > dst /\ i + (from - dst) <= Len(buf) THEN buf[i + (from - dst)]
        ELSE buf[i]]

stripNewline(buf) ==
    LET n == Len(buf) IN
    IF n > 0
    THEN IF n > 1 /\ buf[n - 1] = CR THEN SliceTo(buf, n - 2)
         ELSE IF buf[n] = LF THEN SliceTo(buf, n - 1)
         ELSE buf
    ELSE buf

---------------------------------------------------------------------------
(* scanString.  The result is [buf, err]; err is "nil", the error          *)
(* errInvalidKeyValue, or "panic" when the scan indexes past the buffer.   *)

errInvalidKeyValue == "string literal not terminated"
errInvalidSectionName == "invalid section name"

\* The quoted scan loop: idx is 0-based, escapers the backslash positions.
RECURSIVE scanLoop(_, _, _, _)
scanLoop(buf, quote, idx, escapers) ==
    IF idx >= Len(buf) THEN [idx |-> idx, escapers |-> escapers, err |-> "panic"]
    ELSE IF buf[idx + 1] = quote
    THEN [idx |-> idx, escapers |-> escapers, err |-> "nil"]
    ELSE LET esc == buf[idx + 1] = BSL
             idx2 == IF esc THEN idx + 2 ELSE idx + 1
             escapers2 == IF esc THEN Append(escapers, idx) ELSE escapers
         IN IF idx2 = Len(buf)
            THEN [idx |-> idx2, escapers |-> escapers2, err |-> errInvalidKeyValue]
            ELSE scanLoop(buf, quote, idx2, escapers2)

\* "Remove escapers" that leaves every byte where it is.
removeEscapersNone(buf, escapers, i) == buf

\* "Remove escapers": for i, pos := range escapers { copy(buf[pos-i-1:], buf[pos-i:]) }
RECURSIVE removeEscapers(_, _, _)
removeEscapers(buf, escapers, i) ==
    IF i >= Len(escapers) THEN buf
    ELSE LET pos == escapers[i + 1] IN
         removeEscapers(CopyDown(buf, pos - i - 1, pos - i), escapers, i + 1)

scanString(buf) ==
    LET n == Len(buf) IN
    IF n = 0 \/ n = 1 THEN [buf |-> buf, err |-> "nil"]
    ELSE IF buf[1] # DQ /\ buf[1] # SQ THEN [buf |-> buf, err |-> "nil"]
    ELSE LET r == scanLoop(buf, buf[1], 1, <<>>) IN
         IF r.err # "nil" THEN [buf |-> <<>>, err |-> r.err]
         ELSE LET inner == SubSeq(buf, 2, r.idx) IN
              IF Len(r.escapers) = 0 THEN [buf |-> inner, err |-> "nil"]
              ELSE [buf |-> SliceTo(removeEscapers(inner, r.escapers, 0),
                                    Len(inner) - Len(r.escapers)),
                    err |-> "nil"]

---------------------------------------------------------------------------
(* The document: iniItem, iniSection and the section primitives of INI.    *)

\* The values an option gives INI.mergeSections; 0 is the default (replace).
MergeSections == 2
MergeSectionsWithComments == 3
MergeSectionsWithLastComments == 4

NilItem == [isNil |-> TRUE, Comments |-> <<>>, Key |-> <<>>, Value |-> <<>>]

iniItem(comments, key, value) ==
    [isNil |-> FALSE, Comments |-> comments, Key |-> key, Value |-> value]

iniSection(comments, name, data) ==
    [Comments |-> comments, Name |-> name, Data |-> data]

\* A *iniSection: nil, &ini.global, ini.sections[idx], or a section that is
\* no longer (or was never) part of the document.
NilRef == [kind |-> "nil", idx |-> 0]
GlobalRef == [kind |-> "global", idx |-> 0]
DetachedRef == [kind |-> "detached", idx |-> 0]
NamedRef(i) == [kind |-> "named", idx |-> i]

\* The part of the INI value that holds data.
Doc(g, secs) == [global |-> g, sections |-> secs]

EmptyDoc == Doc(iniSection(<<>>, <<>>, <<>>), <<>>)

Deref(d, ref) ==
    IF ref.kind = "global" THEN d.global ELSE d.sections[ref.idx]

Store(d, ref, sec) ==
    IF ref.kind = "global" THEN [d EXCEPT !.global = sec]
    ELSE IF ref.kind = "named" THEN [d EXCEPT !.sections[ref.idx] = sec]
    ELSE d

\* sectionIndex that compares the names as they are written.
sectionIndexExact(d, section) ==
    LET hits == {i \in 1..Len(d.sections) : d.sections[i].Name = section}
    IN IF hits = {} THEN 0 ELSE CHOOSE i \in hits : \A j \in hits : i <= j

\* The index of the first named section with the identity of `section`, or 0.
sectionIndex(d, section) ==
    LET hits == {i \in 1..Len(d.sections) :
                    ident(isCaseSensitive, d.sections[i].Name)
                        = ident(isCaseSensitive, section)}
    IN IF hits = {} THEN 0 ELSE CHOOSE i \in hits : \A j \in hits : i <= j

\* getSection that finds no named section.
getSectionGlobalOnly(d, section) ==
    IF section = <<>> THEN GlobalRef ELSE NilRef

getSection(d, section) ==
    IF section = <<>> THEN GlobalRef
    ELSE IF sectionIndex(d, section) = 0 THEN NilRef
    ELSE NamedRef(sectionIndex(d, section))

addSection(d, section) ==
    [d EXCEPT !.sections = Append(@, iniSection(<<>>, section, <<>>))]

\* rmSection that finds nothing to remove.
rmSectionNever(d, section) == d

rmSection(d, section) ==
    IF sectionIndex(d, section) = 0 THEN d
    ELSE [d EXCEPT !.sections = RemoveAt(@, sectionIndex(d, section))]

\* iniSection.getItem: the index in Data of the first item with the identity
\* of key, or 0 (also for a nil section).
itemIndex(d, ref, key) ==
    IF ref.kind \notin {"global", "named"} THEN 0
    ELSE LET data == Deref(d, ref).Data
             hits == {i \in 1..Len(data) :
                         /\ ~data[i].isNil
                         /\ ident(isCaseSensitive, data[i].Key)
                                = ident(isCaseSensitive, key)}
         IN IF hits = {} THEN 0 ELSE CHOOSE i \in hits : \A j \in hits : i <= j

\* rmItem that takes the first entry, whatever its key.
rmItemAnyKey(data, key) ==
    LET hits == {i \in 1..Len(data) : ~data[i].isNil}
    IN IF hits = {} THEN [data |-> data, ok |-> FALSE]
       ELSE [data |-> RemoveAt(data, CHOOSE h \in hits : \A j \in hits : h <= j),
             ok |-> TRUE]

\* rmItem that removes the entry and never a separator.
rmItemOnly(data, key) ==
    LET hits == {i \in 1..Len(data) :
                    /\ ~data[i].isNil
                    /\ ident(isCaseSensitive, data[i].Key)
                           = ident(isCaseSensitive, key)}
    IN IF hits = {} THEN [data |-> data, ok |-> FALSE]
       ELSE [data |-> RemoveAt(data, CHOOSE h \in hits : \A j \in hits : h <= j),
             ok |-> TRUE]

\* iniSection.rmItem on the data of a section: [data, ok].
rmItem(data, key) ==
    LET hits == {i \in 1..Len(data) :
                    /\ ~data[i].isNil
                    /\ ident(isCaseSensitive, data[i].Key)
                           = ident(isCaseSensitive, key)}
    IN IF hits = {} THEN [data |-> data, ok |-> FALSE]
       ELSE LET i == (CHOOSE h \in hits : \A j \in hits : h <= j) - 1
                n == Len(data) - 1
                both == \/ (i > 0 /\ data[i].isNil /\ i < n /\ data[i + 2].isNil)
                        \/ (i = 0 /\ n > 0 /\ data[2].isNil)
                skip == IF both THEN 2 ELSE 1
            IN [data |-> SliceTo(data, i) \o SliceFrom(data, i + skip),
                ok |-> TRUE]

\* dedupItems' loop over a, with i its 0-based index.
RECURSIVE dedupLoop(_, _, _, _)
dedupLoop(a, b, flag, i) ==
    IF i >= Len(a) THEN a
    ELSE IF a[i + 1].isNil THEN dedupLoop(a, b, flag, i + 1)
    ELSE IF \E j \in 1..Len(b) : ident(flag, a[i + 1].Key) = ident(flag, b[j].Key)
    THEN dedupLoop(RemoveAt(a, i + 1), b, flag, i)
    ELSE dedupLoop(a, b, flag, i + 1)

dedupItems(a, b, flag) == dedupLoop(a, b, flag, 0) \o b

addItemsToSection(d, items, ref) ==
    IF Len(items) = 0 THEN d
    ELSE IF ref.kind \notin {"global", "named"} THEN d
    ELSE LET sec == Deref(d, ref) IN
         Store(d, ref,
               [sec EXCEPT !.Data =
                   Append(dedupItems(sec.Data, items, isCaseSensitive), NilItem)])

\* updateSection that replaces the comments under every policy.
updateSectionLast(d, items, comments, ref) ==
    addItemsToSection(Store(d, ref, [Deref(d, ref) EXCEPT !.Comments = comments]), items, ref)

updateSection(d, items, comments, ref) ==
    LET sec == Deref(d, ref)
        cs == IF mergeSections = MergeSectionsWithComments
              THEN sec.Comments \o comments
              ELSE comments
    IN addItemsToSection(Store(d, ref, [sec EXCEPT !.Comments = cs]), items, ref)

---------------------------------------------------------------------------
(* INI.ReadFrom.  Its local variables are the record                       *)
(* [comments, current, items, lineNum, read]; what it returns is           *)
(* [n, err] with err = [msg, line]: msg "nil" for a nil error, line 0 for  *)
(* an error that carries no line number, msg "panic" for a run-time panic. *)

NoErr == [msg |-> "nil", line |-> 0]
Panic == [msg |-> "panic", line |-> 0]
LineErr(lineNum, msg) == [msg |-> msg, line |-> lineNum]

Locals0 ==
    [comments |-> <<>>, current |-> NilRef, items |-> <<>>, lineNum |-> 0, read |-> 0]

\* One pass of the loop either goes on (more = TRUE) or returns err.
GoOn(d, l) == [doc |-> d, rd |-> l, more |-> TRUE, err |-> NoErr]
Return(d, l, e) == [doc |-> d, rd |-> l, more |-> FALSE, err |-> e]

\* "Deduplicate keys": for i, item := range items, over the L elements the
\* slice had at the start; arr is its backing array, len the current len(items).
RECURSIVE pendingDedup(_, _, _, _)
pendingDedup(arr, len, i, key) ==
    IF i >= Len(arr) THEN [items |-> SliceTo(arr, len), panic |-> FALSE]
    ELSE IF arr[i + 1].isNil THEN [items |-> <<>>, panic |-> TRUE]
    ELSE IF ident(isCaseSensitive, arr[i + 1].Key) # key
    THEN pendingDedup(arr, len, i + 1, key)
    ELSE IF i > len THEN [items |-> <<>>, panic |-> TRUE]
    ELSE LET n == len - 1
             moved == [p \in 1..Len(arr) |->
                          IF p = n + 1 THEN NilItem
                          ELSE IF p >= i + 1 /\ p <= n THEN arr[p + 1]
                          ELSE arr[p]]
         IN pendingDedup(moved, n, i + 1, key)

\* An empty line (after stripNewline and TrimLeft).
blankLine(d, l) ==
    IF l.current.kind = "nil"
    THEN IF Len(l.comments) = 0 /\ Len(l.items) = 0 THEN GoOn(d, l)
         ELSE GoOn(updateSection(d, l.items, l.comments, GlobalRef),
                   [l EXCEPT !.current = GlobalRef, !.items = <<>>, !.comments = <<>>])
    ELSE GoOn(addItemsToSection(d, l.items, l.current),
              [l EXCEPT !.items = <<>>, !.comments = <<>>])

\* A line starting with "[".
sectionLine(d, l, line) ==
    LET i == IndexByte(line, "]")
        name == SubSeq(line, 2, i)
    IN
    IF i < 0 THEN Return(d, l, LineErr(l.lineNum, "missing ]"))
    ELSE IF name = <<>> THEN Return(d, l, [msg |-> errInvalidSectionName, line |-> 0])
    ELSE IF mergeSections # 0 /\ getSection(d, name).kind # "nil"
    THEN LET cur == getSection(d, name) IN
         GoOn(updateSection(d, l.items, l.comments, cur),
              [l EXCEPT !.current = cur, !.comments = <<>>, !.items = <<>>])
    ELSE LET gone == IF mergeSections = 0 THEN sectionIndex(d, name) ELSE 0
             d1 == IF mergeSections = 0 THEN rmSection(d, name) ELSE d
             \* current still points to the section it pointed to
             cur == IF l.current.kind = "named" /\ gone # 0
                    THEN IF l.current.idx = gone THEN DetachedRef
                         ELSE IF l.current.idx > gone THEN NamedRef(l.current.idx - 1)
                         ELSE l.current
                    ELSE l.current
             d2 == addItemsToSection(d1, l.items, cur)
             d3 == [d2 EXCEPT !.sections = Append(@, iniSection(l.comments, name, <<>>))]
         IN GoOn(d3, [l EXCEPT !.current = NamedRef(Len(d3.sections)),
                               !.comments = <<>>, !.items = <<>>])

\* A line starting with the comment prefix.
commentLine(d, l, line) ==
    GoOn(d, [l EXCEPT !.comments = Append(@, SliceFrom(line, 1))])

\* Any other line: a key/value pair.
keyValueLine(d, l, line) ==
    LET i == IndexByte(line, "=") IN
    IF i < 0 THEN Return(d, l, LineErr(l.lineNum, "missing ="))
    ELSE LET key == TrimRight(SliceTo(line, i))
             scanned == scanString(TrimLeft(SliceFrom(line, i + 1)))
             dd == pendingDedup(l.items, Len(l.items), 0, key)
         IN IF scanned.err = "panic" THEN Return(d, l, Panic)
            ELSE IF scanned.err # "nil" THEN Return(d, l, LineErr(l.lineNum, scanned.err))
            ELSE IF dd.panic THEN Return(d, l, Panic)
            ELSE GoOn(d, [l EXCEPT !.comments = <<>>,
                                   !.items = Append(dd.items,
                                                    iniItem(l.comments, key, scanned.buf))])

\* One pass of ReadFrom's loop, where ReadBytes has returned `raw`, with io.EOF
\* when eof.
readPass(d, l0, raw, eof) ==
    LET l == [l0 EXCEPT !.lineNum = @ + 1, !.read = @ + Len(raw)]
        line == TrimLeft(stripNewline(raw))
    IN
    IF eof /\ Len(raw) = 0
    THEN Return(IF l.current.kind = "nil"
                THEN updateSection(d, l.items, l.comments, GlobalRef)
                ELSE addItemsToSection(d, l.items, l.current),
                l, NoErr)
    ELSE IF Len(line) = 0 THEN blankLine(d, l)
    ELSE IF line[1] = "[" THEN sectionLine(d, l, line)
    ELSE IF HasPrefix(line, comment) THEN commentLine(d, l, line)
    ELSE keyValueLine(d, l, line)

\* ReadFrom's loop over the bytes of a reader: ReadBytes('\n') returns the
\* bytes up to and including the first LF, or what is left together with io.EOF.
RECURSIVE readLoop(_, _, _)
readLoop(d, l, text) ==
    LET k == IndexByte(text, LF)
        raw == IF k < 0 THEN text ELSE SliceTo(text, k + 1)
        rest == IF k < 0 THEN <<>> ELSE SliceFrom(text, k + 1)
        r == readPass(d, l, raw, k < 0)
    IN IF r.more THEN readLoop(r.doc, r.rd, rest) ELSE r

\* ReadFrom of the whole of `text` into the document d: [doc, rd, more, err].
ReadFromText(d, text) == readLoop(d, Locals0, text)

---------------------------------------------------------------------------
(* INI.WriteTo, as the bytes it writes to a writer that never fails.       *)

RECURSIVE Concat(_)
Concat(ss) == IF Len(ss) = 0 THEN <<>> ELSE Head(ss) \o Concat(Tail(ss))

Max(a, b) == IF a >= b THEN a ELSE b

printComments(comments) ==
    Concat([i \in 1..Len(comments) |-> comment \o comments[i] \o <<LF>>])

\* fmt.Fprintf(w, "%-<n>s = %s\n", key, value)
printItem(n, item) ==
    item.Key \o [i \in 1..(Max(n, Len(item.Key)) - Len(item.Key)) |-> SP]
             \o <<SP, "=", SP>> \o item.Value \o <<LF>>

RECURSIVE longestKey(_)
longestKey(block) ==
    IF Len(block) = 0 THEN 0 ELSE Max(Len(Head(block).Key), longestKey(Tail(block)))

printBlock(block) ==
    Concat([i \in 1..Len(block) |->
               printComments(block[i].Comments) \o printItem(longestKey(block), block[i])])

\* The loop over the blocks, with a newline after every block that a separator ends.
RECURSIVE printBlocksAfterEach(_)
printBlocksAfterEach(items) ==
    IF Len(items) = 0 THEN <<>>
    ELSE LET nils == {i \in 1..Len(items) : items[i].isNil}
             cut == IF nils = {} THEN Len(items) + 1
                    ELSE CHOOSE i \in nils : \A j \in nils : i <= j
             block == SubSeq(items, 1, cut - 1)
             rest == SubSeq(items, cut + 1, Len(items))
         IN printBlock(block)
            \o (IF cut <= Len(items) THEN <<LF>> ELSE <<>>)
            \o printBlocksAfterEach(rest)

\* The loop over the blocks of section.Data.
RECURSIVE printBlocks(_)
printBlocks(items) ==
    IF Len(items) = 0 THEN <<>>
    ELSE LET nils == {i \in 1..Len(items) : items[i].isNil}
             cut == IF nils = {} THEN Len(items) + 1
                    ELSE CHOOSE i \in nils : \A j \in nils : i <= j
             block == SubSeq(items, 1, cut - 1)
             rest == SubSeq(items, cut + 1, Len(items))
         IN printBlock(block)
            \o (IF Len(rest) > 0 THEN <<LF>> ELSE <<>>)
            \o printBlocks(rest)

printSection(section) ==
    LET cs == printComments(section.Comments) IN
    cs \o (IF section.Name # <<>> THEN <<"[">> \o section.Name \o <<"]", LF>>
           ELSE IF Len(cs) > 0 THEN <<LF>>
           ELSE <<>>)
       \o printBlocks(section.Data)

WriteTo(d) ==
    printSection(d.global)
    \o Concat([i \in 1..Len(d.sections) |->
                  (IF i > 1 \/ Len(d.global.Data) > 0 THEN <<LF>> ELSE <<>>)
                  \o printSection(d.sections[i])])

---------------------------------------------------------------------------
(* INI.WriteTo on a writer that may fail.  The writer is faultyWriter: it  *)
(* takes n more bytes and fails on the write that reaches them.  `out` is  *)
(* what it has taken, `late` the writes made after one has failed.         *)

NoWriter == [n |-> 0, out |-> <<>>, failed |-> FALSE, late |-> 0]

faultyWriter(n) == [NoWriter EXCEPT !.n = n]

\* faultyWriter.Write: the count and error it reports, and the writer after it.
Write(w, buf) ==
    IF w.n = 0
    THEN [n |-> 0, err |-> TRUE,
          w |-> [w EXCEPT !.late = IF w.failed THEN @ + 1 ELSE @, !.failed = TRUE]]
    ELSE IF Len(buf) < w.n
    THEN [n |-> Len(buf), err |-> FALSE,
          w |-> [w EXCEPT !.n = @ - Len(buf), !.out = @ \o buf]]
    ELSE [n |-> w.n, err |-> TRUE,
          w |-> [w EXCEPT !.n = 0, !.out = @ \o SubSeq(buf, 1, w.n), !.failed = TRUE]]

\* Nothing written.
Wrote0(w) == [n |-> 0, err |-> FALSE, w |-> w]

\* written += n; if err != nil { return written, err }; then the next step.
AndThen(r, step(_)) ==
    IF r.err THEN r
    ELSE LET t == step(r.w) IN [t EXCEPT !.n = r.n + @]

\* printComments that returns no count for a write that failed.
RECURSIVE printCommentsToLosesCount(_, _)
printCommentsToLosesCount(w, comments) ==
    IF Len(comments) = 0 THEN Wrote0(w)
    ELSE LET r == Write(w, comment \o Head(comments) \o <<LF>>) IN
         IF r.err THEN [r EXCEPT !.n = 0]
         ELSE AndThen(r, LAMBDA v : printCommentsToLosesCount(v, Tail(comments)))

RECURSIVE printCommentsTo(_, _)
printCommentsTo(w, comments) ==
    IF Len(comments) = 0 THEN Wrote0(w)
    ELSE AndThen(Write(w, comment \o Head(comments) \o <<LF>>),
                 LAMBDA v : printCommentsTo(v, Tail(comments)))

\* The items of a block, each with its comments; n is the longest key.
RECURSIVE printItemsTo(_, _, _)
printItemsTo(w, block, n) ==
    IF Len(block) = 0 THEN Wrote0(w)
    ELSE AndThen(AndThen(printCommentsTo(w, Head(block).Comments),
                         LAMBDA v : Write(v, printItem(n, Head(block)))),
                 LAMBDA v : printItemsTo(v, Tail(block), n))

RECURSIVE printBlocksTo(_, _)
printBlocksTo(w, items) ==
    IF Len(items) = 0 THEN Wrote0(w)
    ELSE LET nils == {i \in 1..Len(items) : items[i].isNil}
             cut == IF nils = {} THEN Len(items) + 1
                    ELSE CHOOSE i \in nils : \A j \in nils : i <= j
             block == SubSeq(items, 1, cut - 1)
             rest == SubSeq(items, cut + 1, Len(items))
         IN AndThen(AndThen(printItemsTo(w, block, longestKey(block)),
                            LAMBDA v : IF Len(rest) > 0 THEN Write(v, <<LF>>) ELSE Wrote0(v)),
                    LAMBDA v : printBlocksTo(v, rest))

printSectionTo(w, section) ==
    LET c == printCommentsTo(w, section.Comments) IN
    AndThen(AndThen(c,
                    LAMBDA v : IF section.Name # <<>>
                               THEN Write(v, <<"[">> \o section.Name \o <<"]", LF>>)
                               ELSE IF c.n > 0 THEN Write(v, <<LF>>)
                               ELSE Wrote0(v)),
            LAMBDA v : printBlocksTo(v, section.Data))

\* The loop of WriteTo over the named sections, from the i-th on.
RECURSIVE printSectionsTo(_, _, _)
printSectionsTo(w, d, i) ==
    IF i > Len(d.sections) THEN Wrote0(w)
    ELSE AndThen(AndThen(IF i > 1 \/ Len(d.global.Data) > 0 THEN Write(w, <<LF>>)
                         ELSE Wrote0(w),
                         LAMBDA v : printSectionTo(v, d.sections[i])),
                 LAMBDA v : printSectionsTo(v, d, i + 1))

\* INI.WriteTo(w): [n, err, w].
WriteToWriter(w, d) ==
    AndThen(printSectionTo(w, d.global), LAMBDA v : printSectionsTo(v, d, 1))

---------------------------------------------------------------------------
(* The accessors, on a document value.                                     *)

\* INI.get / INI.Get / INI.Has
Has(d, section, key) ==
    IF key = <<>> THEN getSection(d, section).kind # "nil"
    ELSE itemIndex(d, getSection(d, section), key) # 0

Get(d, section, key) ==
    LET ref == getSection(d, section) IN
    IF itemIndex(d, ref, key) = 0 THEN <<>>
    ELSE Deref(d, ref).Data[itemIndex(d, ref, key)].Value

GetComments(d, section, key) ==
    LET ref == getSection(d, section) IN
    IF ref.kind = "nil" THEN <<>>
    ELSE IF key = <<>> THEN Deref(d, ref).Comments
    ELSE IF itemIndex(d, ref, key) = 0 THEN <<>>
    ELSE Deref(d, ref).Data[itemIndex(d, ref, key)].Comments

\* INI.Keys
Keys(d, section) ==
    LET ref == getSection(d, section) IN
    IF ref.kind = "nil" THEN <<>>
    ELSE [i \in 1..Len(Deref(d, ref).Data) |-> Deref(d, ref).Data[i].Key]

\* INI.Sections
Sections(d) == [i \in 1..Len(d.sections) |-> d.sections[i].Name]

\* Set that renames an existing key and leaves its value.
SetDocKeepsValue(d, section, key, value) ==
    LET found == getSection(d, section)
        d1 == IF found.kind = "nil" THEN addSection(d, section)
              ELSE Store(d, found, [Deref(d, found) EXCEPT !.Name = section])
        ref == IF found.kind = "nil" THEN NamedRef(Len(d1.sections)) ELSE found
        sec == Deref(d1, ref)
        n == Len(sec.Data)
        at == itemIndex(d1, ref, key)
    IN
    IF key = <<>>
    THEN IF n > 0 /\ ~sec.Data[n].isNil
         THEN Store(d1, ref, [sec EXCEPT !.Data = Append(@, NilItem)])
         ELSE d1
    ELSE IF at # 0
    THEN Store(d1, ref, [sec EXCEPT !.Data[at].Key = key])
    ELSE Store(d1, ref, [sec EXCEPT !.Data = Append(@, iniItem(<<>>, key, value))])

\* INI.Set
SetDoc(d, section, key, value) ==
    LET found == getSection(d, section)
        d1 == IF found.kind = "nil" THEN addSection(d, section)
              ELSE Store(d, found, [Deref(d, found) EXCEPT !.Name = section])
        ref == IF found.kind = "nil" THEN NamedRef(Len(d1.sections)) ELSE found
        sec == Deref(d1, ref)
        n == Len(sec.Data)
        at == itemIndex(d1, ref, key)
    IN
    IF key = <<>>
    THEN IF n > 0 /\ ~sec.Data[n].isNil
         THEN Store(d1, ref, [sec EXCEPT !.Data = Append(@, NilItem)])
         ELSE d1
    ELSE IF at # 0
    THEN Store(d1, ref, [sec EXCEPT !.Data[at].Key = key, !.Data[at].Value = value])
    ELSE Store(d1, ref, [sec EXCEPT !.Data = Append(@, iniItem(<<>>, key, value))])

\* INI.SetComments
SetCommentsDoc(d, section, key, comments) ==
    LET found == getSection(d, section) IN
    IF key = <<>>
    THEN LET d1 == IF found.kind = "nil" THEN addSection(d, section) ELSE d
             ref == IF found.kind = "nil" THEN NamedRef(Len(d1.sections)) ELSE found
         IN Store(d1, ref, [Deref(d1, ref) EXCEPT !.Comments = comments])
    ELSE IF itemIndex(d, found, key) = 0 THEN d
    ELSE Store(d, found,
               [Deref(d, found) EXCEPT !.Data[itemIndex(d, found, key)].Comments = comments])

\* INI.Del: [doc, ok]
DelDoc(d, section, key) ==
    IF key = <<>>
    THEN IF section = <<>>
         THEN [doc |-> [d EXCEPT !.global = iniSection(<<>>, <<>>, <<>>)], ok |-> TRUE]
         ELSE [doc |-> rmSection(d, section), ok |-> sectionIndex(d, section) # 0]
    ELSE LET ref == getSection(d, section) IN
         IF ref.kind = "nil" THEN [doc |-> d, ok |-> FALSE]
         ELSE LET r == rmItem(Deref(d, ref).Data, key) IN
              [doc |-> Store(d, ref, [Deref(d, ref) EXCEPT !.Data = r.data]),
               ok |-> r.ok]

---------------------------------------------------------------------------
(* Inputs.  A line of an input is built from what it is meant to say       *)
(* (kind, key, value) and carries its bytes (raw); ReadFrom sees the       *)
(* bytes only.  For a section line the key is the section name, for a      *)
(* comment line the comment.                                               *)

DefaultComment == <<";">>

Line(kind, key, value, raw) ==
    [kind |-> kind, key |-> key, value |-> value, rawValue |-> value, raw |-> raw]

Blank == Line("blank", <<>>, <<>>, <<LF>>)
Header(name) == Line("section", name, <<>>, <<"[">> \o name \o <<"]", LF>>)
CommentLine(text) == Line("comment", text, <<>>, DefaultComment \o text \o <<LF>>)
KV(key, value) == Line("kv", key, value, key \o <<"=">> \o value \o <<LF>>)
\* key=<rawValue>, where rawValue is a quoted literal that stands for value, or
\* one that has no end
KVRaw(key, rawValue, value) ==
    [KV(key, value) EXCEPT !.rawValue = rawValue,
                           !.raw = key \o <<"=">> \o rawValue \o <<LF>>]
\* a line that has no place in the format
Bad(kind, raw) == Line(kind, <<>>, <<>>, raw \o <<LF>>)
\* the same line as the last one of an input, without its line feed
Unterminated(l) == [l EXCEPT !.raw = SliceTo(@, Len(@) - 1)]

Terminated(l) == Len(l.raw) > 0 /\ l.raw[Len(l.raw)] = LF

\* Sections, keys and blank lines.
AlphaSections ==
    {Blank, Header(<<"a">>), Header(<<"b">>), KV(<<"k">>, <<"1">>), KV(<<"k">>, <<"2">>),
     KV(<<"j">>, <<"3">>), CommentLine(<<"c">>)}

\* Lines that are refused, and quoted values with and without an end.
AlphaScan ==
    {Blank, Header(<<"a">>), KV(<<"k">>, <<"1">>),
     Bad("missing ]", <<"[", "a">>), Unterminated(Bad("missing ]", <<SP, "[", "a">>)),
     Bad("empty name", <<"[", "]">>),
     Bad("missing =", <<"k">>),
     KVRaw(<<"k">>, <<SQ, "x">>, <<>>), Unterminated(KVRaw(<<"k">>, <<SQ, "x">>, <<>>)),
     KVRaw(<<"k">>, <<DQ, "x", BSL, DQ>>, <<>>),
     KVRaw(<<"k">>, <<DQ, "x", BSL>>, <<>>),
     KVRaw(<<"k">>, <<DQ>>, <<>>),
     KVRaw(<<"j">>, <<DQ, BSL, DQ, "x", DQ, "y">>, <<DQ, "x">>),
     KVRaw(<<"j">>, <<SQ, BSL, BSL, SQ>>, <<BSL>>)}

---------------------------------------------------------------------------
(* The state machine: calls of ReadFrom, which reads its input line by     *)
(* line, and of the accessors, which run while no ReadFrom is under way.   *)

MaxLines == 5
MaxReads == 1
MaxApiLines == 2
MaxCalls == 2

Limits(lines, reads, calls) == [lines |-> lines, reads |-> reads, calls |-> calls]

NoCall == [op |-> "none", section |-> <<>>, key |-> <<>>, value |-> <<>>,
           ok |-> TRUE, n |-> 0, err |-> NoErr, w |-> NoWriter]

TheDoc == Doc(global, sections)

InitWith(alpha, merges, cases, lim) ==
    /\ comment = DefaultComment
    /\ isCaseSensitive \in cases
    /\ mergeSections \in merges
    /\ global = EmptyDoc.global
    /\ sections = EmptyDoc.sections
    /\ pc = "idle"
    /\ rd = Locals0
    /\ ret = NoCall
    /\ src = <<>>
    /\ doc0 = EmptyDoc
    /\ alphabet = alpha
    /\ limits = lim
    /\ count = [lines |-> 0, reads |-> 0, calls |-> 0]

MergePolicies == {0, MergeSections, MergeSectionsWithComments, MergeSectionsWithLastComments}

\* ReadFrom is called: its locals are initialised.
ReadFromCall ==
    /\ pc = "idle"
    /\ count.reads < limits.reads
    /\ pc' = "reading"
    /\ rd' = Locals0
    /\ src' = <<>>
    /\ doc0' = TheDoc
    /\ count' = [count EXCEPT !.reads = @ + 1]
    /\ UNCHANGED <<config, global, sections, ret>>

\* What one pass of the loop leaves behind.
AfterPass(r) ==
    /\ global' = r.doc.global
    /\ sections' = r.doc.sections
    /\ IF r.more
       THEN pc' = "reading" /\ rd' = r.rd /\ ret' = ret
       ELSE /\ pc' = "idle"
            /\ rd' = Locals0
            /\ ret' = [NoCall EXCEPT !.op = "ReadFrom", !.n = r.rd.read, !.err = r.err,
                                     !.ok = (r.err = NoErr)]

\* One pass of the loop on the next line of the input.
ReadLine ==
    /\ pc = "reading"
    /\ count.lines < limits.lines
    /\ (IF src = <<>> THEN TRUE ELSE Terminated(src[Len(src)]))
    /\ \E l \in alphabet :
          /\ src' = Append(src, l)
          /\ AfterPass(readPass(TheDoc, rd, l.raw, ~Terminated(l)))
    /\ count' = [count EXCEPT !.lines = @ + 1]
    /\ UNCHANGED <<config, doc0>>

\* The pass of the loop that finds the input exhausted.
ReadEOF ==
    /\ pc = "reading"
    /\ AfterPass(readPass(TheDoc, rd, <<>>, TRUE))
    /\ UNCHANGED <<config, src, doc0, count>>

SecNames == {<<>>, <<"a">>, <<"A">>}
KeyNames == {<<>>, <<"k">>, <<"K">>, <<"j", "=">>}
Values == {<<"1">>, <<"=", "2">>}
CommentLists == {<<>>, <<<<"c">>>>}

Called(r) ==
    /\ pc = "idle"
    /\ count.calls < limits.calls
    /\ count' = [count EXCEPT !.calls = @ + 1]
    /\ ret' = r
    /\ UNCHANGED <<config, pc, rd, src, doc0>>

SetCall ==
    \E s \in SecNames, k \in KeyNames, v \in Values :
        /\ Called([NoCall EXCEPT !.op = "Set", !.section = s, !.key = k, !.value = v])
        /\ global' = SetDoc(TheDoc, s, k, v).global
        /\ sections' = SetDoc(TheDoc, s, k, v).sections

SetCommentsCall ==
    \E s \in SecNames, k \in KeyNames, c \in CommentLists :
        /\ Called([NoCall EXCEPT !.op = "SetComments", !.section = s, !.key = k])
        /\ global' = SetCommentsDoc(TheDoc, s, k, c).global
        /\ sections' = SetCommentsDoc(TheDoc, s, k, c).sections

DelCall ==
    \E s \in SecNames, k \in KeyNames :
        /\ Called([NoCall EXCEPT !.op = "Del", !.section = s, !.key = k,
                                 !.ok = DelDoc(TheDoc, s, k).ok])
        /\ global' = DelDoc(TheDoc, s, k).doc.global
        /\ sections' = DelDoc(TheDoc, s, k).doc.sections

\* INI.Reset
ResetCall ==
    /\ Called([NoCall EXCEPT !.op = "Reset"])
    /\ global' = EmptyDoc.global
    /\ sections' = EmptyDoc.sections

NextRead == ReadFromCall \/ ReadLine \/ ReadEOF

Next == ReadFromCall \/ ReadLine \/ ReadEOF
            \/ SetCall \/ SetCommentsCall \/ DelCall \/ ResetCall

\* A few lines for a document that the accessors change as well.
AlphaSmall == {Blank, Header(<<"a">>), KV(<<"k">>, <<"1">>), KV(<<"K">>, <<"2">>)}

Init == InitWith(AlphaSmall, MergePolicies, {FALSE, TRUE},
                 Limits(MaxApiLines, MaxReads, MaxCalls))

Spec == Init /\ [][Next]_vars

InitRead == InitWith(AlphaSections, MergePolicies, {FALSE}, Limits(MaxLines, MaxReads, 0))

SpecRead == InitRead /\ [][NextRead]_vars

MaxScanLines == 3
MaxApiCalls == 3
MaxReplaceLines == 5

\* The default policy alone: a section that comes again replaces the earlier one.
InitReplace == InitWith(AlphaSections, {0}, {FALSE}, Limits(MaxReplaceLines, MaxReads, 0))

SpecReplace == InitReplace /\ [][NextRead]_vars

NextApi == SetCall \/ SetCommentsCall \/ DelCall \/ ResetCall

InitApi == InitWith(AlphaSmall, {0}, {FALSE, TRUE}, Limits(0, 0, MaxApiCalls))

SpecApi == InitApi /\ [][NextApi]_vars

\* Quoted values, blocks and comments, for what is read, written and read again.
AlphaRoundTrip ==
    {Blank, Header(<<"a">>), KV(<<"k">>, <<"1">>), KV(<<"k">>, <<"2">>), CommentLine(<<"c">>),
     KVRaw(<<"j">>, <<DQ, BSL, DQ, "x", DQ>>, <<DQ, "x">>),
     KVRaw(<<"j">>, <<SQ, SP, "y", SQ>>, <<SP, "y">>)}

MaxRoundTripLines == 4

InitRoundTrip ==
    InitWith(AlphaRoundTrip, {0}, {FALSE}, Limits(MaxRoundTripLines, MaxReads, 0))

SpecRoundTrip == InitRoundTrip /\ [][NextRead]_vars

\* Keys that repeat, in either letter case, in one block or in two.
AlphaKeys ==
    {Blank, KV(<<"k">>, <<"1">>), KV(<<"K">>, <<"2">>), KV(<<"k">>, <<"3">>),
     KV(<<"j">>, <<"4">>), CommentLine(<<"c">>)}

InitKeys == InitWith(AlphaKeys, {0}, {FALSE, TRUE}, Limits(MaxLines, MaxReads, 0))

SpecKeys == InitKeys /\ [][NextRead]_vars

InitScan == InitWith(AlphaScan, {0, MergeSections}, {FALSE}, Limits(MaxScanLines, MaxReads, 0))

SpecScan == InitScan /\ [][NextRead]_vars

---------------------------------------------------------------------------
(* What the claims are stated in.                                          *)

\* ReadFrom has returned, and what it returned.
Returned == pc = "idle" /\ ret.op = "ReadFrom"
ReadOK == Returned /\ ret.err = NoErr
ReadFailed == Returned /\ ret.err.msg \notin {"nil", "panic"}

RECURSIVE TotalBytes(_)
TotalBytes(lines) ==
    IF Len(lines) = 0 THEN 0 ELSE Len(Head(lines).raw) + TotalBytes(Tail(lines))

RECURSIVE Bytes(_)
Bytes(lines) == IF Len(lines) = 0 THEN <<>> ELSE Head(lines).raw \o Bytes(Tail(lines))

StructuralKinds == {"missing ]", "empty name", "missing ="}

\* The byte at j of the quoted literal v is escaped: an odd number of
\* backslashes that escape nothing else stand right before it.
RECURSIVE Escaped(_, _)
Escaped(v, j) == j > 2 /\ v[j - 1] = BSL /\ ~Escaped(v, j - 1)

\* v starts with a quote character and has no matching unescaped one after it.
Unclosed(v) ==
    /\ Len(v) > 0
    /\ v[1] \in {SQ, DQ}
    /\ ~\E j \in 2..Len(v) : v[j] = v[1] /\ ~Escaped(v, j)

\* The identity of a section or key name.
Id(name) == ident(isCaseSensitive, name)

Hdrs == {i \in 1..Len(src) : src[i].kind = "section"}
KVs == {i \in 1..Len(src) : src[i].kind = "kv"}

\* The header line that line i stands under, 0 when no header precedes it.
HeaderOf(i) ==
    LET before == {h \in Hdrs : h < i} IN
    IF before = {} THEN 0 ELSE CHOOSE h \in before : \A g \in before : g <= h

\* Lines i and j stand under headers of the same section (or both under none).
SameSection(i, j) ==
    IF HeaderOf(i) = 0 \/ HeaderOf(j) = 0 THEN HeaderOf(i) = HeaderOf(j)
    ELSE Id(src[HeaderOf(i)].key) = Id(src[HeaderOf(j)].key)

\* The comment lines that stand right before line i.
RECURSIVE CommentsBefore(_)
CommentsBefore(i) ==
    IF i > 1 /\ src[i - 1].kind = "comment"
    THEN Append(CommentsBefore(i - 1), src[i - 1].key)
    ELSE <<>>

\* The last of the lines in `among` that has the key identity of line i.
LastOfKey(i, among) ==
    LET same == {j \in among : Id(src[j].key) = Id(src[i].key)} IN
    CHOOSE j \in same : \A k \in same : k <= j

Entries(section) == {p \in 1..Len(section.Data) : ~section.Data[p].isNil}

\* The named sections that have the identity of name.
SectionsNamed(name) == {s \in 1..Len(sections) : Id(sections[s].Name) = Id(name)}

---------------------------------------------------------------------------
(* C1: in case of conflicting key names only the last one is used: after   *)
(* a successful ReadFrom, for every key identity that occurs on several    *)
(* key/value lines of a section, exactly one entry with that identity      *)
(* remains and Get returns the value of the last such line.  Stated for    *)
(* inputs without section headers, whose lines all belong to the global    *)
(* section.                                                                *)
C1_LastKeyWins ==
    (ReadOK /\ doc0 = EmptyDoc /\ Hdrs = {}) =>
        \A i \in KVs :
            /\ Cardinality({p \in Entries(global) :
                                Id(global.Data[p].Key) = Id(src[i].key)}) = 1
            /\ Get(TheDoc, <<>>, src[i].key) = src[LastOfKey(i, KVs)].value

\* The lines that stand under header line h, up to the next header.
Under(h) == {i \in 1..Len(src) : HeaderOf(i) = h}

\* Header line h is the last header of its section in the input.
LastHeader(h) == \A g \in Hdrs : Id(src[g].key) = Id(src[h].key) => g <= h

(* C2: under the default (replace) policy, when a section header occurs    *)
(* several times in the input, exactly one section with that identity      *)
(* exists after ReadFrom, and it holds exactly the key/value entries that  *)
(* follow the last occurrence of the header; no key or comment of an       *)
(* earlier occurrence survives.                                            *)
C2_ReplaceKeepsLastOccurrence ==
    (ReadOK /\ mergeSections = 0) =>
        \A h \in Hdrs :
            LastHeader(h) =>
                /\ Cardinality(SectionsNamed(src[h].key)) = 1
                /\ LET sec == sections[CHOOSE s \in SectionsNamed(src[h].key) : TRUE] IN
                   /\ sec.Name = src[h].key
                   /\ sec.Comments = CommentsBefore(h)
                   /\ \A p \in Entries(sec) :
                          \E i \in Under(h) \cap KVs :
                              /\ sec.Data[p].Key = src[i].key
                              /\ sec.Data[p].Value = src[i].value
                              /\ sec.Data[p].Comments = CommentsBefore(i)
                   /\ \A i \in Under(h) \cap KVs :
                          \E p \in Entries(sec) :
                              /\ Id(sec.Data[p].Key) = Id(src[i].key)
                              /\ sec.Data[p].Value
                                     = src[LastOfKey(i, Under(h) \cap KVs)].value

\* [a] with a comment and a key, then [a] again with another key.
C2_Witness ==
    /\ ReadOK /\ mergeSections = 0 /\ Len(sections) = 1
    /\ \E g, h \in Hdrs :
          /\ g < h /\ Id(src[g].key) = Id(src[h].key) /\ LastHeader(h)
          /\ \E i \in Under(g) \cap KVs : \E j \in Under(h) \cap KVs :
                 Id(src[i].key) # Id(src[j].key)
          /\ CommentsBefore(g) # <<>>

(* C3: under a merge policy, when a section header reappears, the single   *)
(* resulting section holds every key of every occurrence: a key of an      *)
(* earlier occurrence only keeps its value and its place among the         *)
(* untouched earlier keys, a key repeated in a later occurrence has the    *)
(* later value and stands with the entries of the later occurrence.        *)
C3_MergeKeepsEveryKey ==
    (ReadOK /\ mergeSections # 0 /\ doc0 = EmptyDoc) =>
        \A h \in {g \in Hdrs : ~LastHeader(g)} :
            /\ Cardinality(SectionsNamed(src[h].key)) = 1
            /\ LET sec == sections[CHOOSE s \in SectionsNamed(src[h].key) : TRUE]
                   mine == {i \in KVs : SameSection(i, h + 1) /\ HeaderOf(i) # 0}
                   \* the line that gives the entry at p its value
                   from(p) == CHOOSE i \in mine :
                                 /\ Id(src[i].key) = Id(sec.Data[p].Key)
                                 /\ i = LastOfKey(i, mine)
               IN /\ \A i \in mine :
                         /\ Has(TheDoc, src[h].key, src[i].key)
                         /\ Get(TheDoc, src[h].key, src[i].key)
                                = src[LastOfKey(i, mine)].value
                  /\ \A p, q \in Entries(sec) :
                         (/\ p < q
                          /\ \E i \in mine : Id(src[i].key) = Id(sec.Data[p].Key)
                          /\ \E i \in mine : Id(src[i].key) = Id(sec.Data[q].Key))
                             => from(p) < from(q)

(* C6: after a successful ReadFrom into an empty document, every key/value *)
(* line that precedes the first header is an entry of the global section,  *)
(* whether or not a blank line separates it from the header.               *)
C6_GlobalKeysKept ==
    (ReadOK /\ doc0 = EmptyDoc) =>
        \A i \in KVs :
            HeaderOf(i) = 0 =>
                /\ Has(TheDoc, <<>>, src[i].key)
                /\ Get(TheDoc, <<>>, src[i].key)
                       = src[LastOfKey(i, {j \in KVs : HeaderOf(j) = 0})].value

\* The keys, values and comments of a section, without its blank lines.
Content(section) ==
    [Comments |-> section.Comments,
     Name |-> section.Name,
     Data |-> SelectSeq(section.Data, LAMBDA item : ~item.isNil)]

\* Two documents with the same sections, keys, values and comments.
SameContent(d, e) ==
    /\ Content(d.global) = Content(e.global)
    /\ Len(d.sections) = Len(e.sections)
    /\ \A s \in 1..Len(d.sections) : Content(d.sections[s]) = Content(e.sections[s])

(* C4: for every input that ReadFrom accepts, re-reading the text that     *)
(* WriteTo produces succeeds and gives a document with the same sections,  *)
(* keys, values and comments.                                              *)
C4_WriteReadKeepsContent ==
    (ReadOK /\ doc0 = EmptyDoc) =>
        LET again == ReadFromText(EmptyDoc, WriteTo(TheDoc)) IN
        /\ again.err = NoErr
        /\ SameContent(again.doc, TheDoc)

(* C5: for every input x that ReadFrom accepts,                            *)
(* write(read(write(read(x)))) is byte for byte write(read(x)).            *)
C5_SecondRoundTripIsIdentity ==
    (ReadOK /\ doc0 = EmptyDoc) =>
        WriteTo(ReadFromText(EmptyDoc, WriteTo(TheDoc)).doc) = WriteTo(TheDoc)

(* C10: after Set(s, k, v) with a non-empty key, Get(s, k) returns v and   *)
(* Has(s, k) is true, whatever calls came before.                          *)
C10_SetThenGet ==
    (pc = "idle" /\ ret.op = "Set" /\ ret.key # <<>>) =>
        /\ Get(TheDoc, ret.section, ret.key) = ret.value
        /\ Has(TheDoc, ret.section, ret.key)

\* Set has overwritten the first of two entries of [A], with a value that holds "=".
C10_Witness ==
    /\ pc = "idle" /\ ret.op = "Set"
    /\ ret.section = <<"A">> /\ ret.key = <<"K">> /\ ret.value = <<"=", "2">>
    /\ Len(sections) = 1
    /\ Len(sections[1].Data) = 2
    /\ sections[1].Data[1].Key = <<"K">>
    /\ ~sections[1].Data[2].isNil

---------------------------------------------------------------------------
(* C7: ReadFrom returns a non-nil error, and reads no further, at the      *)
(* first line that is a section header without "]", a section header with  *)
(* an empty name, or a line that is neither blank, comment nor header and  *)
(* has no "=".                                                             *)
C7_StructuralErrorStops ==
    \A i \in 1..Len(src) :
        src[i].kind \in StructuralKinds
            => /\ i = Len(src)
               /\ ReadFailed
               /\ ret.n = TotalBytes(src)

C7_Witness ==
    /\ ReadFailed
    /\ Len(src) = 3
    /\ src[3].kind = "missing ="
    /\ src[1].kind = "section"

(* C8: for every value that starts with a quote character and has no       *)
(* matching unescaped quote before the end of the line, ReadFrom returns   *)
(* the "string literal not terminated" error for that line.                *)
C8_UnclosedQuoteIsError ==
    \A i \in 1..Len(src) :
        (src[i].kind = "kv" /\ Unclosed(src[i].rawValue))
            => /\ i = Len(src)
               /\ Returned
               /\ ret.err.msg = errInvalidKeyValue

(* C9: when ReadFrom fails on line N, the document equals the document     *)
(* that reading lines 1..N-1 alone gives.                                  *)
C9_FailureKeepsPrefix ==
    ReadFailed =>
        TheDoc = ReadFromText(doc0, Bytes(SubSeq(src, 1, Len(src) - 1))).doc

---------------------------------------------------------------------------
MaxNameCalls == 2

InitNames == InitWith(AlphaSmall, {0}, {FALSE, TRUE}, Limits(0, 0, MaxNameCalls))

\* The accessors alone, under names in both letter cases.
SpecNames == InitNames /\ [][NextApi]_vars

\* Two names that differ at most in letter case.
SameLetters(a, b) == ToLower(a) = ToLower(b)

(* C11: name identity follows the case-sensitivity option in every         *)
(* accessor.  In default mode two section names or two key names that      *)
(* differ only in letter case are the same name for Get, Has, GetComments, *)
(* Set, SetComments and Del; in case-sensitive mode they are different     *)
(* names: Set and Del under one spelling leave what Get and Has answer     *)
(* under the other spelling as it was.                                     *)
C11_NameIdentityFollowsOption ==
    pc = "idle" =>
        \A s1, s2 \in SecNames, k1, k2 \in KeyNames :
            (SameLetters(s1, s2) /\ SameLetters(k1, k2) /\ <<s1, k1>> # <<s2, k2>>) =>
                IF isCaseSensitive
                THEN /\ \A v \in Values :
                         /\ Get(SetDoc(TheDoc, s1, k1, v), s2, k2) = Get(TheDoc, s2, k2)
                         /\ Has(SetDoc(TheDoc, s1, k1, v), s2, k2) = Has(TheDoc, s2, k2)
                     /\ Get(DelDoc(TheDoc, s1, k1).doc, s2, k2) = Get(TheDoc, s2, k2)
                     /\ Has(DelDoc(TheDoc, s1, k1).doc, s2, k2) = Has(TheDoc, s2, k2)
                     /\ (ret.op = "Set" /\ ret.section = s1 /\ ret.key = k1
                            /\ ~Has(doc0, s2, k2) /\ count.calls = 1)
                         => Get(TheDoc, s2, k2) = <<>>
                ELSE /\ Get(TheDoc, s1, k1) = Get(TheDoc, s2, k2)
                     /\ Has(TheDoc, s1, k1) = Has(TheDoc, s2, k2)
                     /\ GetComments(TheDoc, s1, k1) = GetComments(TheDoc, s2, k2)
                     /\ DelDoc(TheDoc, s1, k1) = DelDoc(TheDoc, s2, k2)
                     /\ \A v \in Values :
                            k1 # <<>> =>
                                /\ Get(SetDoc(TheDoc, s1, k1, v), s2, k2) = v
                                /\ Has(SetDoc(TheDoc, s1, k1, v), s2, k2)
                     /\ \A c \in CommentLists :
                            (k1 = <<>> \/ Has(TheDoc, s1, k1)) =>
                                GetComments(SetCommentsDoc(TheDoc, s1, k1, c), s2, k2) = c

\* In default mode Set("A", "K", v) has acted and Get("a", "k") gives v.
C11_Witness ==
    /\ pc = "idle" /\ ~isCaseSensitive
    /\ ret.op = "Set" /\ ret.section = <<"A">> /\ ret.key = <<"K">>
    /\ Get(TheDoc, <<"a">>, <<"k">>) = ret.value
    /\ count.calls > 1

\* Del(section, key) has nothing to remove in the document d.
MissingTarget(d, section, key) ==
    IF key = <<>> THEN section # <<>> /\ ~Has(d, section, <<>>)
    ELSE ~Has(d, section, key)

(* C12: Del of a missing target returns false and changes nothing:         *)
(* Del(s, "") for a named section that does not exist, Del(s, k) for a     *)
(* section that does not exist and Del(s, k) for a section without key k   *)
(* leave every section, entry, separator and comment as they were.         *)
C12_DelMissingChangesNothing ==
    [][(ret'.op = "Del" /\ count'.calls = count.calls + 1
            /\ MissingTarget(TheDoc, ret'.section, ret'.key))
        => (~ret'.ok /\ global' = global /\ sections' = sections)]_vars

\* Del has found no such key in a section that holds an entry and a separator.
C12_Witness ==
    /\ pc = "idle" /\ ret.op = "Del" /\ ~ret.ok /\ ret.key # <<>>
    /\ Len(sections) = 1
    /\ Id(ret.section) = Id(sections[1].Name)
    /\ Len(sections[1].Data) = 2
    /\ sections[1].Data[2].isNil

---------------------------------------------------------------------------
(* The document under every operation: ReadFrom, several times and under   *)
(* every merge policy, and the accessors in between.                       *)

\* Sections and keys in both letter cases, a blank line, a line without a key.
AlphaDoc ==
    {Blank, Header(<<"a">>), Header(<<"A">>), KV(<<"k">>, <<"1">>), KV(<<"K">>, <<"2">>),
     KV(<<>>, <<"1">>)}

MaxDocLines == 3
MaxDocReads == 2
MaxDocCalls == 1

InitDoc ==
    InitWith(AlphaDoc, MergePolicies, {FALSE, TRUE},
             Limits(MaxDocLines, MaxDocReads, MaxDocCalls))

SpecDoc == InitDoc /\ [][Next]_vars

\* Section headers in both letter cases.
AlphaHeaders == {Header(<<"a">>), Header(<<"A">>)}

MaxHeaderLines == 1
MaxHeaderReads == 2
MaxHeaderCalls == 1

InitHeaders ==
    InitWith(AlphaHeaders, MergePolicies, {FALSE, TRUE},
             Limits(MaxHeaderLines, MaxHeaderReads, MaxHeaderCalls))

SpecHeaders == InitHeaders /\ [][Next]_vars

\* The sections of the document, the global one first.
AllSections == <<global>> \o sections

(* C13: in every reachable state no two named sections have the same       *)
(* identity (the name, lower-cased unless the document is case-sensitive). *)
C13_SectionNamesUnique ==
    \A s, t \in 1..Len(sections) :
        Id(sections[s].Name) = Id(sections[t].Name) => s = t

\* ReadFrom has met the header of a section that Set had made, in the other case.
C13_Witness ==
    /\ ReadOK /\ count.calls = 1 /\ ~isCaseSensitive
    /\ Len(sections) = 1 /\ Len(doc0.sections) = 1
    /\ \E h \in Hdrs : /\ Id(src[h].key) = Id(doc0.sections[1].Name)
                         /\ src[h].key # doc0.sections[1].Name

(* C14: in every reachable state no section, global or named, holds two    *)
(* entries whose keys have the same identity.                              *)
C14_KeysUniquePerSection ==
    \A s \in 1..Len(AllSections) :
        \A p, q \in Entries(AllSections[s]) :
            Id(AllSections[s].Data[p].Key) = Id(AllSections[s].Data[q].Key) => p = q

(* C15: in every reachable state no section's data begins with a block     *)
(* separator and no two block separators are adjacent in it.               *)
C15_SeparatorsWellPlaced ==
    \A s \in 1..Len(AllSections) :
        LET data == AllSections[s].Data IN
        /\ Len(data) > 0 => ~data[1].isNil
        /\ \A p \in 1..(Len(data) - 1) : ~(data[p].isNil /\ data[p + 1].isNil)

(* C16: in every reachable state each element of a section's data that is  *)
(* not a block separator has a non-empty key.                              *)
C16_EntriesHaveKeys ==
    \A s \in 1..Len(AllSections) :
        \A p \in Entries(AllSections[s]) : AllSections[s].Data[p].Key # <<>>

---------------------------------------------------------------------------
(* Section comments under the merge policies.                              *)

\* Two comments that can be told apart, before headers, keys and blank lines.
AlphaComments ==
    {Blank, Header(<<"a">>), Header(<<"b">>), KV(<<"k">>, <<"1">>),
     CommentLine(<<"c">>), CommentLine(<<"d">>)}

MaxCommentLines == 4
MaxCommentReads == 2

InitComments ==
    InitWith(AlphaComments, {MergeSections, MergeSectionsWithComments}, {FALSE},
             Limits(MaxCommentLines, MaxCommentReads, 0))

SpecComments == InitComments /\ [][NextRead]_vars

\* The comments the document d holds for the section `name`, none if it has no such section.
CommentsIn(d, name) ==
    IF getSection(d, name).kind = "nil" THEN <<>> ELSE GetComments(d, name, <<>>)

\* The comments that stand before the headers of `name` among the first n lines, in order.
RECURSIVE HeaderComments(_, _)
HeaderComments(name, n) ==
    IF n = 0 THEN <<>>
    ELSE HeaderComments(name, n - 1)
            \o (IF src[n].kind = "section" /\ Id(src[n].key) = Id(name)
                THEN CommentsBefore(n) ELSE <<>>)

\* Header line h is the first header of its section in the input.
FirstHeader(h) == \A g \in Hdrs : Id(src[g].key) = Id(src[h].key) => h <= g

(* C17: under the plain MergeSections policy, when ReadFrom meets a        *)
(* header of a section that already exists, the comments pending for that  *)
(* header are discarded and the section keeps the comments it had.         *)
C17_PlainMergeKeepsComments ==
    (ReadOK /\ mergeSections = MergeSections) =>
        \A h \in Hdrs :
            FirstHeader(h) =>
                CommentsIn(TheDoc, src[h].key)
                    = IF Has(doc0, src[h].key, <<>>) THEN CommentsIn(doc0, src[h].key)
                      ELSE CommentsBefore(h)

(* C18: under MergeSectionsWithComments the comments of a section after    *)
(* ReadFrom are its previous comments followed, in order, by the comments  *)
(* read before each of its headers; likewise the comments that lead the    *)
(* input, up to a blank line or its end, are added to the global ones.     *)
C18_CommentsAccumulate ==
    (ReadOK /\ mergeSections = MergeSectionsWithComments) =>
        /\ \A h \in Hdrs :
               CommentsIn(TheDoc, src[h].key)
                   = CommentsIn(doc0, src[h].key) \o HeaderComments(src[h].key, Len(src))
        /\ \A n \in 1..Len(src) :
               (/\ \A i \in 1..n : src[i].kind = "comment"
                /\ (n = Len(src) \/ src[n + 1].kind = "blank"))
                   => global.Comments = doc0.global.Comments \o CommentsBefore(n + 1)

\* A second ReadFrom has added the comment d to the comment c that [a] had.
C18_Witness ==
    /\ ReadOK /\ mergeSections = MergeSectionsWithComments /\ count.reads = 2
    /\ Len(sections) = 1 /\ Len(doc0.sections) = 1
    /\ sections[1].Comments = <<<<"c">>, <<"d">>>>
    /\ doc0.sections[1].Comments = <<<<"c">>>>
    /\ Len(src) = 2

---------------------------------------------------------------------------
(* Comment lines under the Comment option.                                 *)

\* The prefixes given to the Comment option: the default one and one of two bytes.
CommentPrefixes == {DefaultComment, <<"/", "/">>}

\* The comment line that says `text` under the prefix P.
CommentLineWith(P, text) == Line("comment", text, <<>>, P \o text \o <<LF>>)

AlphaPrefix(P) ==
    {Blank, Header(<<"a">>), KV(<<"k">>, <<"1">>),
     CommentLineWith(P, <<"c">>), CommentLineWith(P, <<SP, "d">>)}

MaxPrefixLines == 4

InitPrefix ==
    /\ comment \in CommentPrefixes
    /\ isCaseSensitive = FALSE
    /\ mergeSections = 0
    /\ global = EmptyDoc.global
    /\ sections = EmptyDoc.sections
    /\ pc = "idle"
    /\ rd = Locals0
    /\ ret = NoCall
    /\ src = <<>>
    /\ doc0 = EmptyDoc
    /\ alphabet = AlphaPrefix(comment)
    /\ limits = Limits(MaxPrefixLines, MaxReads, 0)
    /\ count = [lines |-> 0, reads |-> 0, calls |-> 0]

SpecPrefix == InitPrefix /\ [][NextRead]_vars

\* The comments of the key/value line i, where the document holds them.
StoredComments(i) ==
    LET h == HeaderOf(i)
        name == IF h = 0 THEN <<>> ELSE src[h].key
    IN GetComments(TheDoc, name, src[i].key)

(* C19: a comment line is stored with its prefix stripped and the rest     *)
(* verbatim, whatever the length of the configured prefix P: the line P+T  *)
(* is stored as the comment T, for a section header and for a key alike,   *)
(* and WriteTo gives the line P+T back.                                    *)
C19_CommentPrefixStripped ==
    (ReadOK /\ doc0 = EmptyDoc) =>
        /\ \A h \in Hdrs :
               LastHeader(h) => CommentsIn(TheDoc, src[h].key) = CommentsBefore(h)
        /\ \A i \in KVs :
               (i = LastOfKey(i, KVs) /\ Has(TheDoc, IF HeaderOf(i) = 0 THEN <<>>
                                                      ELSE src[HeaderOf(i)].key, src[i].key))
                   => StoredComments(i) = CommentsBefore(i)
        /\ (src # <<>> /\ \A i \in 1..Len(src) : src[i].kind = "comment")
               => WriteTo(TheDoc) = Bytes(src) \o <<LF>>

---------------------------------------------------------------------------
(* WriteTo on a writer that fails, for documents that the accessors make.  *)

MaxWriterBytes == 8
MaxWriteCalls == 3

faultyWriterError == "faulty"

\* INI.WriteTo, on a faultyWriter that takes `size` bytes.
WriteToCall ==
    \E size \in 0..MaxWriterBytes :
        LET r == WriteToWriter(faultyWriter(size), TheDoc) IN
        /\ Called([NoCall EXCEPT !.op = "WriteTo", !.n = r.n, !.ok = ~r.err, !.w = r.w,
                                 !.err = IF r.err THEN [msg |-> faultyWriterError, line |-> 0]
                                         ELSE NoErr])
        /\ UNCHANGED <<global, sections>>

NextWrite == SetCall \/ SetCommentsCall \/ DelCall \/ ResetCall \/ WriteToCall

InitWrite == InitWith(AlphaSmall, {0}, {FALSE}, Limits(0, 0, MaxWriteCalls))

SpecWrite == InitWrite /\ [][NextWrite]_vars

(* C20: WriteTo stops at the first write failure: it returns that error    *)
(* with a byte count equal to the sum of the counts the writer reported,   *)
(* the failing write included, and makes no write after it; when no write  *)
(* fails the count is the length of the whole output and the error is nil. *)
C20_WriteToStopsAtFirstFailure ==
    (pc = "idle" /\ ret.op = "WriteTo") =>
        /\ ret.n = Len(ret.w.out)
        /\ ret.w.late = 0
        /\ (ret.err # NoErr) = ret.w.failed
        /\ ret.w.failed => ret.w.out = SubSeq(WriteTo(TheDoc), 1, Len(ret.w.out))
        /\ ~ret.w.failed => /\ ret.w.out = WriteTo(TheDoc)
                            /\ ret.n = Len(WriteTo(TheDoc))

\* The writer has failed in the middle of the comment of a key, after the section header.
C20_Witness ==
    /\ pc = "idle" /\ ret.op = "WriteTo" /\ ret.err # NoErr
    /\ Len(sections) = 1 /\ global.Data = <<>>
    /\ Len(sections[1].Data) = 1
    /\ sections[1].Data[1].Comments # <<>>
    /\ ret.n = Len(sections[1].Name) + 3 + 1

\* The writer has taken the whole output.
C20_WitnessNoFailure ==
    /\ pc = "idle" /\ ret.op = "WriteTo" /\ ret.err = NoErr
    /\ ret.n > 0

---------------------------------------------------------------------------
\* The data has no leading separator and no two adjacent separators.
WellSeparated(data) ==
    /\ Len(data) > 0 => ~data[1].isNil
    /\ \A p \in 1..(Len(data) - 1) : ~(data[p].isNil /\ data[p + 1].isNil)

\* The empty lines of a text: the line feeds that stand first or right after a line feed.
EmptyLines(text) == {p \in 1..Len(text) : text[p] = LF /\ (p = 1 \/ text[p - 1] = LF)}

\* The separators of the data that have an entry after them.
InnerSeparators(data) == {p \in 1..(Len(data) - 1) : data[p].isNil}

\* The text without its empty lines.
RECURSIVE WithoutEmptyLines(_, _)
WithoutEmptyLines(text, p) ==
    IF p > Len(text) THEN <<>>
    ELSE (IF p \in EmptyLines(text) THEN <<>> ELSE <<text[p]>>)
            \o WithoutEmptyLines(text, p + 1)

\* The blocks of the data, one after the other, as WriteTo prints each of them.
RECURSIVE BlocksPrinted(_)
BlocksPrinted(data) ==
    IF Len(data) = 0 THEN <<>>
    ELSE LET n == Len(data)
             seps == {p \in 1..n : data[p].isNil}
             start == IF seps = {} THEN 1 ELSE 1 + CHOOSE p \in seps : \A q \in seps : q <= p
         IN BlocksPrinted(SubSeq(data, 1, start - 2)) \o printBlock(SubSeq(data, start, n))

(* C21: for every section whose data has no leading separator and no two   *)
(* adjacent separators, WriteTo emits exactly one empty line between two   *)
(* consecutive blocks and none after the last block, also when the data    *)
(* ends with a separator.                                                  *)
C21_OneEmptyLineBetweenBlocks ==
    pc = "idle" =>
        \A s \in 1..Len(AllSections) :
            LET data == AllSections[s].Data
                out == printBlocks(data)
            IN WellSeparated(data) =>
                /\ Cardinality(EmptyLines(out)) = Cardinality(InnerSeparators(data))
                /\ \A p \in EmptyLines(out) : p > 1 /\ p < Len(out) /\ out[p + 1] # LF
                /\ WithoutEmptyLines(out, 1) = BlocksPrinted(data)

\* ReadFrom has left two blocks in the global section, the data ending with a separator.
C21_Witness ==
    /\ ReadOK
    /\ Len(global.Data) = 4
    /\ ~global.Data[1].isNil /\ global.Data[2].isNil
    /\ ~global.Data[3].isNil /\ global.Data[4].isNil

---------------------------------------------------------------------------
\* The section header and key/value lines.
Entities == Hdrs \cup KVs

\* The first entity after line i, 0 when none follows.
NextEntity(i) ==
    LET after == {j \in Entities : j > i} IN
    IF after = {} THEN 0 ELSE CHOOSE j \in after : \A k \in after : j <= k

\* t is one of the comments cs.
OneOf(t, cs) == \E p \in 1..Len(cs) : cs[p] = t

\* The comments the document holds for the entity at line j.
EntityComments(j) ==
    IF src[j].kind = "section" THEN CommentsIn(TheDoc, src[j].key) ELSE StoredComments(j)

(* C22: every comment line read by ReadFrom is carried forward to the      *)
(* entity that follows it next and is never discarded: it is among the     *)
(* comments of the next section header or key/value line after it, or      *)
(* among the global section's comments when no section or key has been     *)
(* read before it.  Stated for inputs in which no header and no key        *)
(* comes twice.                                                            *)
C22_CommentsCarriedForward ==
    (/\ ReadOK /\ doc0 = EmptyDoc
     /\ \A g, h \in Hdrs : Id(src[g].key) = Id(src[h].key) => g = h
     /\ \A i, j \in KVs : Id(src[i].key) = Id(src[j].key) => i = j) =>
        \A i \in 1..Len(src) :
            src[i].kind = "comment" =>
                \/ NextEntity(i) # 0 /\ OneOf(src[i].key, EntityComments(NextEntity(i)))
                \/ (\A j \in Entities : j > i) /\ OneOf(src[i].key, global.Comments)
                \/ NextEntity(i) = 0 /\ \E j \in Entities : j < i

---------------------------------------------------------------------------
(* Del on documents that ReadFrom has made, with blocks of one key.        *)

AlphaDel == {Blank, KV(<<"j">>, <<"3">>), KV(<<"k">>, <<"1">>), KV(<<"m">>, <<"5">>)}

MaxDelLines == 5
MaxDelCalls == 1

NextDel == ReadFromCall \/ ReadLine \/ ReadEOF \/ DelCall

InitDel == InitWith(AlphaDel, {0}, {FALSE}, Limits(MaxDelLines, MaxReads, MaxDelCalls))

SpecDel == InitDel /\ [][NextDel]_vars

\* The separators of the data that stand first or right after a separator.
Misplaced(data) == {p \in 1..Len(data) : data[p].isNil /\ (p = 1 \/ data[p - 1].isNil)}

\* The data without its entry at p, and without the separator that this leaves misplaced.
WithoutEntry(data, p) ==
    LET left == RemoveAt(data, p) IN
    IF Misplaced(left) = {} THEN left
    ELSE RemoveAt(left, CHOOSE q \in Misplaced(left) : TRUE)

---------------------------------------------------------------------------
(* The order of the sections after ReadFrom.                               *)

AlphaOrder == {Header(<<"a">>), Header(<<"b">>), Header(<<"A">>), KV(<<"k">>, <<"1">>)}

MaxOrderLines == 4

InitOrder ==
    InitWith(AlphaOrder, MergePolicies, {FALSE, TRUE}, Limits(MaxOrderLines, MaxReads, 0))

SpecOrder == InitOrder /\ [][NextRead]_vars

\* The numbers of the lines of the input, in order.
LineNumbers == [i \in 1..Len(src) |-> i]

\* The names on the header lines that `keep` selects, in the order of the input.
HeaderNames(keep(_)) ==
    LET picked == SelectSeq(LineNumbers, LAMBDA h : h \in Hdrs /\ keep(h))
    IN [i \in 1..Len(picked) |-> src[picked[i]].key]

\* The names of the sections of d that `keep` selects, in their order.
SectionNames(d, keep(_)) ==
    LET picked == SelectSeq(d.sections, LAMBDA sec : keep(sec.Name))
    IN [i \in 1..Len(picked) |-> picked[i].Name]

\* The input has a header for the section `name`.
InInput(name) == \E h \in Hdrs : Id(src[h].key) = Id(name)

(* C24: after ReadFrom, under the default (replace) policy the named       *)
(* sections read are listed in the order of the last occurrence of each    *)
(* header in the input; under a merge policy in the order of the first     *)
(* occurrence.  The sections that the document had and the input does not  *)
(* name again come first, in the order they had.                           *)
C24_SectionsOrder ==
    ReadOK =>
        Sections(TheDoc)
            = IF mergeSections = 0
              THEN SectionNames(doc0, LAMBDA name : ~InInput(name))
                      \o HeaderNames(LAMBDA h : LastHeader(h))
              ELSE Sections(doc0)
                      \o HeaderNames(LAMBDA h : FirstHeader(h) /\ ~Has(doc0, src[h].key, <<>>))

\* Under replace [a] [b] [a] gives b, a.
C24_WitnessReplace ==
    /\ ReadOK /\ mergeSections = 0
    /\ Len(src) = 3 /\ src[1] = Header(<<"a">>) /\ src[2] = Header(<<"b">>)
    /\ src[3] = Header(<<"a">>)
    /\ Sections(TheDoc) = << <<"b">>, <<"a">> >>

\* Under MergeSections [a] [b] [a] gives a, b.
C24_Witness ==
    /\ ReadOK /\ mergeSections = MergeSections
    /\ Len(src) = 3 /\ src[1] = Header(<<"a">>) /\ src[2] = Header(<<"b">>)
    /\ src[3] = Header(<<"a">>)
    /\ Sections(TheDoc) = << <<"a">>, <<"b">> >>

---------------------------------------------------------------------------
(* Values of every shape: all the byte strings up to a length over quotes, *)
(* the backslash and a letter.                                             *)

ValueBytes == {DQ, SQ, BSL, "x"}

MaxValueLen == 5

RawValues == UNION {[1..m -> ValueBytes] : m \in 0..MaxValueLen}

\* v starts with a quote character and has its matching unescaped quote.
Closed(v) == Len(v) > 1 /\ v[1] \in {SQ, DQ} /\ ~Unclosed(v)

\* The place of the quote that closes v.
ClosingQuote(v) ==
    CHOOSE j \in 2..Len(v) :
        /\ v[j] = v[1] /\ ~Escaped(v, j)
        /\ \A k \in 2..(j - 1) : ~(v[k] = v[1] /\ ~Escaped(v, k))

\* The bytes between the quotes of v, without the backslashes that escape a byte.
RECURSIVE Unescaped(_, _, _)
Unescaped(v, p, end) ==
    IF p >= end THEN <<>>
    ELSE (IF v[p] = BSL /\ ~Escaped(v, p) THEN <<>> ELSE <<v[p]>>)
            \o Unescaped(v, p + 1, end)

\* What the value v stands for.
Meaning(v) == IF Closed(v) THEN Unescaped(v, 2, ClosingQuote(v)) ELSE v

\* The values the claim speaks of: quoted with an end, not quoted, or of length 0 or 1.
Scannable(v) == Closed(v) \/ Len(v) < 2 \/ v[1] \notin {SQ, DQ}

AlphaValues == {KVRaw(<<"k">>, v, Meaning(v)) : v \in RawValues}

\* One line for each document: the scanner takes each value alone.
InitValues == InitWith(AlphaValues, {0}, {FALSE}, Limits(1, MaxReads, 0))

SpecValues == InitValues /\ [][NextRead]_vars

(* C25: for a value whose first byte is a quote character Q and that has a *)
(* matching unescaped Q, the scanned value is the bytes between the two    *)
(* quotes with each escaping backslash removed and the byte it escapes     *)
(* kept, and the bytes after the closing Q are discarded without error; a  *)
(* value that does not start with a quote character, and a value of        *)
(* length 0 or 1, is returned unchanged.                                   *)
C25_ScannedValue ==
    (Returned /\ \A i \in 1..Len(src) : Scannable(src[i].rawValue)) =>
        /\ ret.err = NoErr
        /\ src # <<>> =>
              /\ Get(TheDoc, <<>>, <<"k">>) = Meaning(src[Len(src)].rawValue)
              /\ scanString(src[Len(src)].rawValue)
                    = [buf |-> Meaning(src[Len(src)].rawValue), err |-> "nil"]

\* "\""x has been read: an escaped quote inside, a byte after the closing quote.
C25_Witness ==
    /\ ReadOK /\ Len(src) = 1
    /\ src[1].rawValue = <<DQ, BSL, DQ, DQ, "x">>
    /\ Get(TheDoc, <<>>, <<"k">>) = <<DQ>>

\* '\\' has been read: an escaped backslash between the quotes.
C25_WitnessEscapes ==
    /\ ReadOK /\ Len(src) = 1
    /\ src[1].rawValue = <<SQ, BSL, BSL, SQ>>
    /\ Get(TheDoc, <<>>, <<"k">>) = <<BSL>>

---------------------------------------------------------------------------
(* C26: every structural parse error returned by ReadFrom (missing ],      *)
(* empty section name, missing =, unterminated quoted literal) reports the *)
(* 1-based number of the offending line, counting every line read so far,  *)
(* blank lines, comment lines and a final line without terminator          *)
(* included.                                                               *)
C26_ErrorReportsLineNumber ==
    ReadFailed => ret.err.line = Len(src)

---------------------------------------------------------------------------
(* Lines with each ending: a line feed, a carriage return and a line feed, *)
(* and none for the last line of an input.                                 *)

WithCRLF(l) == [l EXCEPT !.raw = SliceTo(@, Len(@) - 1) \o <<CR, LF>>]

AlphaNewline ==
    {Blank, WithCRLF(Blank),
     KV(<<"k">>, <<"1">>), WithCRLF(KV(<<"k">>, <<"2">>)),
     Unterminated(KV(<<"j">>, <<"3">>)),
     Unterminated(KV(<<"j">>, <<"4", CR>>)),
     Unterminated(KV(<<"j">>, <<"a", CR, "b">>))}

MaxNewlineLines == 3

InitNewline == InitWith(AlphaNewline, {0}, {FALSE}, Limits(MaxNewlineLines, MaxReads, 0))

SpecNewline == InitNewline /\ [][NextRead]_vars

\* The line terminator of the bytes of a line.
Terminator(raw) ==
    LET n == Len(raw) IN
    IF n > 1 /\ raw[n - 1] = CR /\ raw[n] = LF THEN <<CR, LF>>
    ELSE IF n > 0 /\ raw[n] = LF THEN <<LF>>
    ELSE <<>>

\* The bytes of a line without its terminator.
Body(raw) == SliceTo(raw, Len(raw) - Len(Terminator(raw)))

(* C27: ReadFrom removes from each line exactly its line terminator and    *)
(* nothing else: a line ending in CR LF loses those two bytes, a line      *)
(* ending in LF alone loses one byte, and a final line that does not end   *)
(* in LF loses no byte, so the key and value parsed from an unterminated   *)
(* last line use all of its bytes.                                         *)
C27_OnlyTerminatorRemoved ==
    /\ \A i \in 1..Len(src) : stripNewline(src[i].raw) = Body(src[i].raw)
    /\ ReadOK =>
          \A i \in KVs : i = LastOfKey(i, KVs) =>
              Get(TheDoc, <<>>, src[i].key) = src[i].value

---------------------------------------------------------------------------
(* C28: ReadFrom always returns to its caller: for every input and every   *)
(* option set it ends with a byte count and either nil or an error value;  *)
(* no input makes it fail abnormally (an index out of range in the scan of *)
(* a quoted value, the use of a removed pending entry in the loop over     *)
(* duplicate keys).                                                        *)
C28_ReadFromAlwaysReturns ==
    Returned => ret.err.msg # Panic.msg

---------------------------------------------------------------------------
\* The key/value lines that stand under a header of the section `name`
\* (under no header for the global section, whose name is empty).
LinesOf(name) ==
    {i \in KVs : IF name = <<>> THEN HeaderOf(i) = 0
                 ELSE HeaderOf(i) # 0 /\ Id(src[HeaderOf(i)].key) = Id(name)}

\* Every entry of the section comes from a key/value line of that section.
OwnEntries(section) ==
    \A p \in Entries(section) :
        \E i \in LinesOf(section.Name) :
            /\ Id(src[i].key) = Id(section.Data[p].Key)
            /\ src[i].value = section.Data[p].Value

(* C29: during ReadFrom, under every merge policy, a key/value line is     *)
(* never stored in a section other than the one named by the nearest       *)
(* section header that precedes it in the input (the global section when   *)
(* no header precedes it); in particular key/value lines pending when a    *)
(* header of an already existing section is met are not added to that      *)
(* re-encountered section.                                                 *)
C29_StoredInOwnSection ==
    doc0 = EmptyDoc =>
        /\ OwnEntries(global)
        /\ \A s \in 1..Len(sections) : OwnEntries(sections[s])

---------------------------------------------------------------------------
(* C30: ReadFrom of an empty input (zero bytes) leaves the document        *)
(* unchanged under every merge policy: all named sections, the entries of  *)
(* the global section and every section and key comment set before the     *)
(* call, the comments of the global section included, are the same after   *)
(* it, and it returns 0 and a nil error.                                   *)
C30_EmptyInputChangesNothing ==
    (Returned /\ src = <<>>) =>
        /\ TheDoc = doc0
        /\ ret.n = 0
        /\ ret.err = NoErr

====
